---- MODULE Spec2Model ----
(***************************************************************************)
(* Model of the social-network XML analyser: DataController                *)
(* (Controllers/data_controller.py) and GraphController                    *)
(* (src/controllers/graph_controller.py) working on a parsed document.     *)
(*                                                                         *)
(* A document is the sequence of its <user> elements in document order     *)
(* (what findall('.//user') returns).  Texts are strings; the Python value *)
(* None and a missing child element are the two sentinels below.           *)
(***************************************************************************)
EXTENDS Integers, Sequences, FiniteSets, TLC

\* ------------------------------------------------------------------------
\* Values
\* ------------------------------------------------------------------------

\* Python's None (an attribute that is not there, an element without text).
None == "<None>"
\* find(tag) returned None: the child element is not there.
Absent == "<Absent>"

\* Python truthiness of an Optional[str].
Truthy(s) == s # None /\ s # ""

\* The text of a child element as the code reads it after `elem is not None`:
\* Absent never reaches .text.
HasText(c) == c # Absent /\ Truthy(c)

\* str.strip() on the texts of the model: the padded texts and what is left
\* of them once the surrounding whitespace is removed.
strip(s) ==
    CASE s = " 1 " -> "1"
      [] s = " 2 " -> "2"
      [] s = " Alice " -> "Alice"
      [] s = " 3 " -> "3"
      [] s = " " -> ""
      [] OTHER -> s

\* int(text.strip()): the parsable texts of the model and their values;
\* every other text raises ValueError.
IntTexts == {"0", "3", "20", "30"}
CanInt(s) == strip(s) \in IntTexts
int(s) ==
    LET t == strip(s)
    IN  CASE t = "0" -> 0
          [] t = "3" -> 3
          [] t = "20" -> 20
          [] t = "30" -> 30
          [] OTHER -> 0

\* xml_data is None (no document set), or holds one document.
NoData == <<>>
\* G is None; the export file does not exist.
NoGraph == <<>>
NoFile == <<>>
\* The dict {} and the list [].
EmptyDict == <<>>
EmptyList == <<>>

\* Error strings of the controllers.
NoDataLoaded == "No data loaded. Please upload and parse an XML file first."
NoUsersFound == "No users found in XML data."

\* ------------------------------------------------------------------------
\* Bounds and the documents of the model
\* ------------------------------------------------------------------------

\* Largest number of <user> elements in a document.
MaxUsers == 2

\* A <post> element: its id attribute and the texts of its children.
Post(id, likes) ==
    [id |-> id, content |-> "hello", timestamp |-> Absent, likes |-> likes]

\* A <user> element.
\*   idAttr       attribute id (None when the attribute is not there)
\*   idChild      text of the child <id> (Absent when there is no child)
\*   name         text of the child <name>
\*   followers    text of the child <followers> (the scalar count)
\*   followerIds  for each <follower> under <followers>, the text of its <id>
\*   friends      for each <friend> under <connections>, its user_id attribute
\*   following, age, username   texts of these children
\*   posts        the <post> elements under the user
User(idAttr, idChild, name, followerIds, friends, posts) ==
    [idAttr |-> idAttr, idChild |-> idChild, name |-> name,
     followers |-> IF followerIds = <<>> THEN Absent ELSE None,
     followerIds |-> followerIds, friends |-> friends,
     following |-> Absent, age |-> Absent, username |-> Absent,
     posts |-> posts]

\* Follower lists (Shape A) and friend lists (Shape B) of one user: targets
\* "1" and "2" may be users of the document, "9" never is.
EdgeForms ==
    { << <<>>, <<>> >>,
      << <<"1">>, <<>> >>,
      << <<"1">>, <<"2">> >>,
      << <<"2">>, <<"2">> >>,
      << <<"2", "2">>, <<>> >>,
      << <<" 1 ", None>>, <<"", "9">> >> }

\* Users that differ in their edges, and users whose id is not an attribute.
GraphUsers ==
    { User(i, Absent, "Alice", e[1], e[2], <<>>) :
        i \in {"1", "2"}, e \in EdgeForms }
    \cup { User(None, Absent, "Alice", <<"1">>, <<"2">>, <<>>),
           User("", Absent, "Alice", <<"1">>, <<>>, <<>>),
           User(None, "2", "Alice", <<"1">>, <<>>, <<>>) }

\* Users that differ in id and name.  The id is one of  id="1", <id>2</id>,
\* id="" (empty attribute), <id/> and nothing at all.  Each user has a
\* post without id, a post with one, a dangling follower and a friend "1".
DataUser(i, n) ==
    User(i[1], i[2], n, <<"9">>, <<"1">>,
         << Post(None, "3"), Post("p1", "abc") >>)

DataUsers ==
    { DataUser(i, n) : i \in { <<"1", Absent>>, <<None, "2">> },
                       n \in {Absent, None, "Bob"} }
    \cup { DataUser(i, n) :
             i \in { <<"", Absent>>, <<None, None>>, <<None, Absent>> },
             n \in {Absent, "Bob"} }

\* A <user> element with the scalar children the statistics read.
StatUser(idAttr, name, username, followers, followerIds, following, age, posts) ==
    [idAttr |-> idAttr, idChild |-> Absent, name |-> name,
     followers |-> followers, followerIds |-> followerIds, friends |-> <<>>,
     following |-> following, age |-> age, username |-> username,
     posts |-> posts]

\* Users that differ in their counts, ages, user names and the likes of
\* their posts: texts that parse, padded texts, texts that do not parse,
\* elements without text and missing elements.
StatUsers ==
    { StatUser("1", "Alice", "alice1", "3", <<"2", "2">>, " 3 ", "20",
               << Post("p2", Absent), Post("p4", " ") >>),
      StatUser("2", Absent, Absent, "abc", <<>>, Absent, "abc",
               << Post("p3", None), Post("", "20") >>),
      StatUser("2", None, None, " ", <<"1">>, "0", "30", <<>>),
      StatUser("1", " Alice ", Absent, Absent, <<>>, "20", Absent, <<>>),
      StatUser(None, "Bob", "bob", "20", <<>>, None, " 3 ",
               << Post("p1", "3") >>) }

\* Two users, "1" named Alice without edges and "2" named Bob who lists "1".
ScenarioA ==
    << User("1", Absent, "Alice", <<>>, <<>>, <<>>),
       User("2", Absent, "Bob", <<"1">>, <<>>, <<>>) >>

SeqsUpTo(S, n) == UNION { [1..k -> S] : k \in 0..n }

GraphDocs == SeqsUpTo(GraphUsers, MaxUsers)
DataDocs == SeqsUpTo(DataUsers, MaxUsers)
StatDocs == SeqsUpTo(StatUsers, MaxUsers)
Docs == GraphDocs \cup DataDocs \cup StatDocs \cup {ScenarioA}

\* ------------------------------------------------------------------------
\* Helpers over sequences
\* ------------------------------------------------------------------------

Range(s) == { s[i] : i \in DOMAIN s }

RECURSIVE SumSeq(_)
SumSeq(s) == IF s = <<>> THEN 0 ELSE Head(s) + SumSeq(Tail(s))

\* A quotient a / b of Python's true division, kept as the pair it is made
\* of; the literal 0 of the `else 0` branches is 0 / 1.
Quot(a, b) == [num |-> a, den |-> b]
Zero == Quot(0, 1)
QuotEq(x, y) == x.num * y.den = y.num * x.den
QuotLeq(x, y) == x.num * y.den <= y.num * x.den

\* ------------------------------------------------------------------------
\* GraphController
\* ------------------------------------------------------------------------

\* user.get('id'), else the text of the child <id> (lines 46-50; the same
\* lines in check_for_errors and export_to_json).
ResolveId(user) ==
    IF user.idAttr # None THEN user.idAttr
    ELSE IF user.idChild # Absent THEN user.idChild
    ELSE None

\* Lines 62-68: the follower ids of Shape A, stripped.
ShapeATargets(user) ==
    IF user.followers = Absent THEN <<>>
    ELSE LET keep == SelectSeq(user.followerIds, HasText)
         IN  [k \in DOMAIN keep |-> strip(keep[k])]

\* Lines 71-76: the friend ids of Shape B.
ShapeBTargets(user) == SelectSeq(user.friends, Truthy)

\* DictPut as a list of pairs would do it: a key already there is added again.
DictPut_Append(nodes, id, name) == Append(nodes, [id |-> id, name |-> name])

\* nodes[user_id] = user_name on a dict that keeps insertion order: a key
\* already there keeps its place and takes the new value.
DictPut(nodes, id, name) ==
    IF \E k \in DOMAIN nodes : nodes[k].id = id
    THEN [k \in DOMAIN nodes |->
            IF nodes[k].id = id THEN [id |-> id, name |-> name] ELSE nodes[k]]
    ELSE Append(nodes, [id |-> id, name |-> name])

\* Line 57: the display name of a node.
NodeName(user, user_id) ==
    IF user.name # Absent THEN user.name ELSE "User " \o user_id

\* Lines 44-58: the nodes mapping after the first n users.
RECURSIVE GraphNodes(_, _)
GraphNodes(users, n) ==
    IF n = 0 THEN <<>>
    ELSE LET user == users[n]
             user_id == ResolveId(user)
             before == GraphNodes(users, n - 1)
         IN  IF user_id = None THEN before
             ELSE DictPut(before, user_id, NodeName(user, user_id))

\* The edges of one user pointing the other way, from the listed id to the
\* user.
UserEdges_Reversed(user) ==
    LET user_id == ResolveId(user)
        targets == ShapeATargets(user) \o ShapeBTargets(user)
    IN  IF user_id = None THEN <<>>
        ELSE [k \in DOMAIN targets |-> <<targets[k], user_id>>]

\* Lines 60-76: the edges one user contributes, Shape A before Shape B.
UserEdges(user) ==
    LET user_id == ResolveId(user)
        targets == ShapeATargets(user) \o ShapeBTargets(user)
    IN  IF user_id = None THEN <<>>
        ELSE [k \in DOMAIN targets |-> <<user_id, targets[k]>>]

\* The edges list after the first n users.
RECURSIVE GraphEdges(_, _)
GraphEdges(users, n) ==
    IF n = 0 THEN <<>>
    ELSE GraphEdges(users, n - 1) \o UserEdges(users[n])

NodeIds(nodes) == [k \in DOMAIN nodes |-> nodes[k].id]

\* _build_networkx_graph with line 100 testing the source of the edge only:
\* an edge to a target that is no user is kept.
_build_networkx_graph_AnyTarget(nodes, edges) ==
    [nodes |-> [k \in DOMAIN nodes |-> nodes[k].id],
     edges |-> { e \in { edges[k] : k \in DOMAIN edges } :
                    \E k \in DOMAIN nodes : nodes[k].id = e[1] }]

\* A networkx DiGraph: its nodes in insertion order and its set of edges
\* (one edge per ordered pair, self-loops included).
_build_networkx_graph(nodes, edges) ==
    LET ids == NodeIds(nodes)
    IN  [nodes |-> ids,
         edges |-> { e \in Range(edges) :
                        e[1] \in Range(ids) /\ e[2] \in Range(ids) }]

\* An in-degree that leaves out the edge of a node to itself.
in_degree_SkipsLoops(g, v) == Cardinality({ e \in g.edges : e[2] = v /\ e[1] # v })

\* G.in_degree() and G.out_degree() (lines 117-118).
in_degree(g, v) == Cardinality({ e \in g.edges : e[2] = v })
out_degree(g, v) == Cardinality({ e \in g.edges : e[1] = v })

\* nx.density of a directed graph: 0 when there is no edge or at most one
\* node, else m / (n * (n - 1)).
density(g) ==
    LET n == Len(g.nodes)
        m == Cardinality(g.edges)
    IN  IF m = 0 \/ n <= 1 THEN Zero ELSE Quot(m, n * (n - 1))

\* The last key, in iteration order, of maximal value.
ArgMax_Last(keys, d) ==
    LET best == { k \in DOMAIN keys :
                    /\ \A j \in DOMAIN keys : d[keys[j]] <= d[keys[k]]
                    /\ \A j \in (k + 1)..Len(keys) : d[keys[j]] < d[keys[k]] }
    IN  keys[CHOOSE k \in best : TRUE]

\* max(d, key=d.get): the first key, in iteration order, of maximal value.
\* keys is the iteration order of the dict d.
ArgMax(keys, d) ==
    LET best == { k \in DOMAIN keys :
                    /\ \A j \in DOMAIN keys : d[keys[j]] <= d[keys[k]]
                    /\ \A j \in 1..(k - 1) : d[keys[j]] < d[keys[k]] }
    IN  keys[CHOOSE k \in best : TRUE]

\* nodes.get(id, 'Unknown')
DictGet(nodes, id, default) ==
    IF \E k \in DOMAIN nodes : nodes[k].id = id
    THEN nodes[CHOOSE k \in DOMAIN nodes : nodes[k].id = id].name
    ELSE default

_calculate_metrics(g, nodes) ==
    LET ids == g.nodes
        ind(v) == in_degree(g, v)
        outd(v) == out_degree(g, v)
        in_degrees == [v \in Range(ids) |-> ind(v)]
        out_degrees == [v \in Range(ids) |-> outd(v)]
        n == Len(ids)
        most_influential_id == ArgMax(ids, in_degrees)
        most_active_id == ArgMax(ids, out_degrees)
    IN  [num_nodes |-> n,
         num_edges |-> Cardinality(g.edges),
         density |-> density(g),
         avg_in_degree |->
            Quot(SumSeq([k \in DOMAIN ids |-> ind(ids[k])]), n),
         avg_out_degree |->
            Quot(SumSeq([k \in DOMAIN ids |-> outd(ids[k])]), n),
         most_influential |->
            [id |-> most_influential_id,
             name |-> DictGet(nodes, most_influential_id, "Unknown"),
             followers |-> ind(most_influential_id)],
         most_active |->
            [id |-> most_active_id,
             name |-> DictGet(nodes, most_active_id, "Unknown"),
             following |-> outd(most_active_id)],
         in_degrees |-> in_degrees,
         out_degrees |-> out_degrees]

\* build_graph without the test of lines 34-35: findall on None raises and
\* the handler of line 87 answers.
build_graph_result_NoNoneCheck(xml_data, oldG, oldMetrics) ==
    IF xml_data = NoData
    THEN [ret |-> [op |-> "build_graph", success |-> FALSE,
                   nodes |-> EmptyDict, edges |-> EmptyList,
                   error |-> "Error building graph"],
          G |-> oldG, metrics |-> oldMetrics]
    ELSE LET users == xml_data[1]
             nodes == GraphNodes(users, Len(users))
             edges == GraphEdges(users, Len(users))
             g == _build_networkx_graph(nodes, edges)
         IN  IF Len(nodes) = 0
             THEN [ret |-> [op |-> "build_graph", success |-> FALSE,
                            nodes |-> EmptyDict, edges |-> EmptyList,
                            error |-> NoUsersFound],
                   G |-> oldG, metrics |-> oldMetrics]
             ELSE [ret |-> [op |-> "build_graph", success |-> TRUE,
                            nodes |-> nodes, edges |-> edges, error |-> None],
                   G |-> g, metrics |-> _calculate_metrics(g, nodes)]

\* build_graph with the graph assigned (line 82) before the test of line 78.
build_graph_result_GraphBeforeCheck(xml_data, oldG, oldMetrics) ==
    IF xml_data = NoData
    THEN [ret |-> [op |-> "build_graph", success |-> FALSE,
                   nodes |-> EmptyDict, edges |-> EmptyList,
                   error |-> NoDataLoaded],
          G |-> oldG, metrics |-> oldMetrics]
    ELSE LET users == xml_data[1]
             nodes == GraphNodes(users, Len(users))
             edges == GraphEdges(users, Len(users))
             g == _build_networkx_graph(nodes, edges)
         IN  IF Len(nodes) = 0
             THEN [ret |-> [op |-> "build_graph", success |-> FALSE,
                            nodes |-> EmptyDict, edges |-> EmptyList,
                            error |-> NoUsersFound],
                   G |-> g, metrics |-> oldMetrics]
             ELSE [ret |-> [op |-> "build_graph", success |-> TRUE,
                            nodes |-> nodes, edges |-> edges, error |-> None],
                   G |-> g, metrics |-> _calculate_metrics(g, nodes)]

\* What build_graph returns and what it leaves in G and metrics.
build_graph_result(xml_data, oldG, oldMetrics) ==
    IF xml_data = NoData
    THEN [ret |-> [op |-> "build_graph", success |-> FALSE,
                   nodes |-> EmptyDict, edges |-> EmptyList,
                   error |-> NoDataLoaded],
          G |-> oldG, metrics |-> oldMetrics]
    ELSE LET users == xml_data[1]
             nodes == GraphNodes(users, Len(users))
             edges == GraphEdges(users, Len(users))
             g == _build_networkx_graph(nodes, edges)
         IN  IF Len(nodes) = 0
             THEN [ret |-> [op |-> "build_graph", success |-> FALSE,
                            nodes |-> EmptyDict, edges |-> EmptyList,
                            error |-> NoUsersFound],
                   G |-> oldG, metrics |-> oldMetrics]
             ELSE [ret |-> [op |-> "build_graph", success |-> TRUE,
                            nodes |-> nodes, edges |-> edges, error |-> None],
                   G |-> g, metrics |-> _calculate_metrics(g, nodes)]

\* ------------------------------------------------------------------------
\* DataController
\* ------------------------------------------------------------------------

\* Lines 42-46 (and 47-51, 177-188): what a scalar count child adds to a
\* total: its text as an integer, 0 when it is absent, empty or unparsable.
CountOf(c) == IF HasText(c) /\ CanInt(c) THEN int(c) ELSE 0

\* The followers total as the number of <follower> entries of the users.
TotalFollowers_CountsEntries(users) ==
    SumSeq([k \in DOMAIN users |-> Len(users[k].followerIds)])

\* The totals accumulated over the users (lines 33-52, 166-188).
TotalFollowers(users) ==
    SumSeq([k \in DOMAIN users |-> CountOf(users[k].followers)])
TotalFollowing(users) ==
    SumSeq([k \in DOMAIN users |-> CountOf(users[k].following)])
TotalPosts(users) ==
    SumSeq([k \in DOMAIN users |-> Len(users[k].posts)])

\* Lines 54-61: the sample of the first user.
SampleUser(users) ==
    IF users = <<>> THEN EmptyDict
    ELSE LET sample_user == users[1]
         IN  [id |-> IF sample_user.idAttr # None
                     THEN sample_user.idAttr ELSE "N/A",
              username |-> IF sample_user.username # Absent
                           THEN sample_user.username ELSE "N/A"]

parse_user_data_result(xml_data) ==
    IF xml_data = NoData
    THEN [op |-> "parse_user_data", success |-> FALSE, stats |-> EmptyDict,
          error |-> NoDataLoaded]
    ELSE LET users == xml_data[1]
             n == Len(users)
         IN  [op |-> "parse_user_data", success |-> TRUE,
              stats |-> [total_users |-> n,
                         total_followers |-> TotalFollowers(users),
                         total_following |-> TotalFollowing(users),
                         total_posts |-> TotalPosts(users),
                         sample_user |-> SampleUser(users)],
              error |-> None]

\* The messages of check_for_errors, kept as their parts:
\*   "User #<ord>: Missing user ID", "User <user>: Missing name",
\*   "User <user>: Post missing ID",
\*   "User <user>: Follower ID <target> does not exist in network".
Msg(kind, ord, user, target) ==
    [kind |-> kind, ord |-> ord, user |-> user, target |-> target]
MissingUserID(idx) == Msg("Missing user ID", idx, "", "")
MissingName(user_id) == Msg("Missing name", 0, user_id, "")
PostMissingID(user_id) == Msg("Post missing ID", 0, user_id, "")
FollowerMissing(user_id, follower_id) ==
    Msg("Follower ID does not exist in network", 0, user_id, follower_id)

\* Lines 90-99: the ids the follower targets are validated against.
valid_user_ids(users) ==
    { ResolveId(users[k]) : k \in { j \in DOMAIN users :
                                      Truthy(ResolveId(users[j])) } }

\* Lines 126-142: the follower ids of both shapes, as check_for_errors reads
\* them (the text of Shape A is not stripped here).
followers_list(user) ==
    (IF user.followers = Absent THEN <<>>
     ELSE SelectSeq(user.followerIds, HasText))
    \o SelectSeq(user.friends, Truthy)

\* UserErrors without the `continue` of line 112.
UserErrors_NoContinue(users, idx) ==
    LET user == users[idx]
        user_id == ResolveId(user)
    IN  (IF ~Truthy(user_id) THEN << MissingUserID(idx) >> ELSE <<>>)
        \o (IF ~HasText(user.name) THEN << MissingName(user_id) >> ELSE <<>>)

\* Lines 101-117: the errors of the user at position idx.
UserErrors(users, idx) ==
    LET user == users[idx]
        user_id == ResolveId(user)
    IN  IF ~Truthy(user_id) THEN << MissingUserID(idx) >>
        ELSE IF ~HasText(user.name) THEN << MissingName(user_id) >>
        ELSE <<>>

\* UserWarnings without lines 136-142: the friends of Shape B are not
\* validated.
UserWarnings_ShapeAOnly(users, idx) ==
    LET user == users[idx]
        user_id == ResolveId(user)
        noId == SelectSeq(user.posts, LAMBDA post : ~Truthy(post.id))
        listed == IF user.followers = Absent THEN <<>>
                  ELSE SelectSeq(user.followerIds, HasText)
        dangling == SelectSeq(listed,
                              LAMBDA f : f \notin valid_user_ids(users))
    IN  IF ~Truthy(user_id) THEN <<>>
        ELSE [k \in DOMAIN noId |-> PostMissingID(user_id)]
             \o [k \in DOMAIN dangling |->
                    FollowerMissing(user_id, dangling[k])]

\* Lines 119-147: the warnings of the user at position idx.
UserWarnings(users, idx) ==
    LET user == users[idx]
        user_id == ResolveId(user)
        noId == SelectSeq(user.posts, LAMBDA post : ~Truthy(post.id))
        dangling == SelectSeq(followers_list(user),
                              LAMBDA f : f \notin valid_user_ids(users))
    IN  IF ~Truthy(user_id) THEN <<>>
        ELSE [k \in DOMAIN noId |-> PostMissingID(user_id)]
             \o [k \in DOMAIN dangling |->
                    FollowerMissing(user_id, dangling[k])]

\* The errors and the warnings lists after the first n users.
RECURSIVE Errors(_, _)
Errors(users, n) ==
    IF n = 0 THEN <<>> ELSE Errors(users, n - 1) \o UserErrors(users, n)

RECURSIVE Warnings(_, _)
Warnings(users, n) ==
    IF n = 0 THEN <<>> ELSE Warnings(users, n - 1) \o UserWarnings(users, n)

check_for_errors_result(xml_data) ==
    IF xml_data = NoData
    THEN [op |-> "check_for_errors", success |-> FALSE,
          errors |-> EmptyList, warnings |-> EmptyList,
          error |-> NoDataLoaded]
    ELSE LET users == xml_data[1]
         IN  [op |-> "check_for_errors", success |-> TRUE,
              errors |-> Errors(users, Len(users)),
              warnings |-> Warnings(users, Len(users)),
              error |-> None]

\* Lines 190-195: the ages that parse, in document order.
RECURSIVE Ages(_, _)
Ages(users, n) ==
    IF n = 0 THEN <<>>
    ELSE LET age == users[n].age
         IN  Ages(users, n - 1)
             \o (IF HasText(age) /\ CanInt(age) THEN << int(age) >> ELSE <<>>)

\* calculate_statistics with the sum of the ages divided by the number of
\* users.
calculate_statistics_result_AgeOverAllUsers(xml_data) ==
    IF xml_data = NoData
    THEN [op |-> "calculate_statistics", success |-> FALSE,
          stats |-> EmptyDict, error |-> NoDataLoaded]
    ELSE LET users == xml_data[1]
             total_users == Len(users)
             total_posts == TotalPosts(users)
             total_followers == TotalFollowers(users)
             total_following == TotalFollowing(users)
             ages == Ages(users, total_users)
         IN  [op |-> "calculate_statistics", success |-> TRUE,
              stats |->
                [total_users |-> total_users,
                 total_posts |-> total_posts,
                 total_followers |-> total_followers,
                 total_following |-> total_following,
                 avg_age |-> IF total_users > 0
                             THEN Quot(SumSeq(ages), total_users) ELSE Zero,
                 avg_followers |-> IF total_users > 0
                                   THEN Quot(total_followers, total_users)
                                   ELSE Zero,
                 avg_posts |-> IF total_users > 0
                               THEN Quot(total_posts, total_users)
                               ELSE Zero],
              error |-> None]

\* Lines 153-213: what calculate_statistics returns.
calculate_statistics_result(xml_data) ==
    IF xml_data = NoData
    THEN [op |-> "calculate_statistics", success |-> FALSE,
          stats |-> EmptyDict, error |-> NoDataLoaded]
    ELSE LET users == xml_data[1]
             total_users == Len(users)
             total_posts == TotalPosts(users)
             total_followers == TotalFollowers(users)
             total_following == TotalFollowing(users)
             ages == Ages(users, total_users)
         IN  [op |-> "calculate_statistics", success |-> TRUE,
              stats |->
                [total_users |-> total_users,
                 total_posts |-> total_posts,
                 total_followers |-> total_followers,
                 total_following |-> total_following,
                 avg_age |-> IF ages # <<>>
                             THEN Quot(SumSeq(ages), Len(ages)) ELSE Zero,
                 avg_followers |-> IF total_users > 0
                                   THEN Quot(total_followers, total_users)
                                   ELSE Zero,
                 avg_posts |-> IF total_users > 0
                               THEN Quot(total_posts, total_users)
                               ELSE Zero],
              error |-> None]

\* A post exported with another default than that of line 264: likes that
\* do not parse are written as -1.
PostDict_OtherDefault(post) ==
    [id |-> post.id,
     content |-> IF HasText(post.content) THEN strip(post.content) ELSE "",
     timestamp |-> IF HasText(post.timestamp)
                   THEN strip(post.timestamp) ELSE "",
     likes |-> IF HasText(post.likes) /\ CanInt(post.likes)
               THEN int(post.likes) ELSE -1]

\* Lines 261-282: a post as exported.
PostDict(post) ==
    [id |-> post.id,
     content |-> IF HasText(post.content) THEN strip(post.content) ELSE "",
     timestamp |-> IF HasText(post.timestamp)
                   THEN strip(post.timestamp) ELSE "",
     likes |-> IF HasText(post.likes) /\ CanInt(post.likes)
               THEN int(post.likes) ELSE 0]

\* The followers list with the friends of the connections block first.
ExportFollowers_ShapeBFirst(user) ==
    LET ids == IF user.followers = Absent THEN <<>>
               ELSE SelectSeq(user.followerIds,
                              LAMBDA t : t # Absent /\ t # None /\ t # "")
        structure1 == [k \in DOMAIN ids |-> strip(ids[k])]
        structure2 == SelectSeq(user.friends,
                                LAMBDA t : t # None /\ t # "")
    IN  structure2 \o structure1

\* Lines 284-300: user_dict["followers"], the stripped <id> texts of the
\* <follower>s (Structure 1) and then the user_id of the <friend>s
\* (Structure 2).
ExportFollowers(user) ==
    LET ids == IF user.followers = Absent THEN <<>>
               ELSE SelectSeq(user.followerIds,
                              LAMBDA t : t # Absent /\ t # None /\ t # "")
        structure1 == [k \in DOMAIN ids |-> strip(ids[k])]
        structure2 == SelectSeq(user.friends,
                                LAMBDA t : t # None /\ t # "")
    IN  structure1 \o structure2

\* Lines 248-300: a user as exported.
UserDict(user) ==
    [id |-> ResolveId(user),
     name |-> IF HasText(user.name) THEN strip(user.name) ELSE None,
     posts |-> [k \in DOMAIN user.posts |-> PostDict(user.posts[k])],
     followers |-> ExportFollowers(user)]

\* Lines 237-302: json_data["users"] after the first n users.
RECURSIVE JsonUsers(_, _)
JsonUsers(users, n) ==
    IF n = 0 THEN <<>>
    ELSE IF ResolveId(users[n]) = None THEN JsonUsers(users, n - 1)
    ELSE Append(JsonUsers(users, n - 1), UserDict(users[n]))

\* Line 308: the summary of a successful export, kept as its parts:
\* "Successfully exported <count> users to JSON. File saved: <path>".
ExportSummary(users, file_path) ==
    [count |-> Len(users), path |-> file_path]

\* An export_to_json whose handler swallows the failure of the write and
\* reports success.
export_to_json_result_SwallowsWriteError(xml_data, file_path, oldFile, writeOk) ==
    IF xml_data = NoData
    THEN [ret |-> [op |-> "export_to_json", success |-> FALSE,
                   message |-> "", error |-> NoDataLoaded],
          file |-> oldFile]
    ELSE LET users == xml_data[1]
             json_data == [users |-> JsonUsers(users, Len(users))]
         IN  [ret |-> [op |-> "export_to_json", success |-> TRUE,
                       message |-> ExportSummary(users, file_path),
                       error |-> None],
              file |-> IF writeOk THEN json_data ELSE oldFile]

\* What export_to_json returns and what it leaves in the file; writeOk is
\* whether open() and json.dump succeed.
export_to_json_result(xml_data, file_path, oldFile, writeOk) ==
    IF xml_data = NoData
    THEN [ret |-> [op |-> "export_to_json", success |-> FALSE,
                   message |-> "", error |-> NoDataLoaded],
          file |-> oldFile]
    ELSE LET users == xml_data[1]
             json_data == [users |-> JsonUsers(users, Len(users))]
         IN  IF writeOk
             THEN [ret |-> [op |-> "export_to_json", success |-> TRUE,
                            message |-> ExportSummary(users, file_path),
                            error |-> None],
                   file |-> json_data]
             ELSE [ret |-> [op |-> "export_to_json", success |-> FALSE,
                            message |-> "",
                            error |-> "Failed to export to JSON"],
                   file |-> oldFile]

\* ------------------------------------------------------------------------
\* XMLController and the files it reads and writes
\* ------------------------------------------------------------------------

\* The number of roots the parses of one run may create.
MaxObjects == 2

\* No object: Python's None where an object is expected.  Objects are
\* numbered from 1 in the order they are created; heap[n] is the document
\* the root n holds.
NoObject == 0

\* The content of a path: no file, a file that is not well-formed XML, or an
\* XML document, as written by hand or as format_xml_file writes it.
Missing == [kind |-> "missing", doc |-> <<>>, pretty |-> FALSE]
Malformed == [kind |-> "malformed", doc |-> <<>>, pretty |-> FALSE]
XmlFile(doc) == [kind |-> "xml", doc |-> doc, pretty |-> FALSE]

\* Lines 110-121: the text format_xml_file writes for a document.
Pretty(content) == [content EXCEPT !.pretty = TRUE]

\* XMLController.__init__ (lines 13-17).
NewXMLController ==
    [xml_tree |-> NoObject, xml_data |-> NoObject,
     current_file_path |-> "", user_record_count |-> 0]

\* parse_xml_string (lines 42-61): ET.fromstring raises before anything is
\* assigned; a string that parses leaves no file path.
parse_xml_string_result(xc, heap, xml_string) ==
    LET root == Len(heap) + 1
    IN  IF xml_string.kind = "xml"
        THEN [xc |-> [xml_tree |-> root, xml_data |-> root,
                      current_file_path |-> "",
                      user_record_count |-> Len(xml_string.doc)],
              heap |-> Append(heap, xml_string.doc),
              ret |-> [success |-> TRUE,
                       message |-> "XML validated successfully",
                       user_count |-> Len(xml_string.doc)]]
        ELSE [xc |-> xc, heap |-> heap,
              ret |-> [success |-> FALSE,
                       message |-> "XML parsing failed",
                       user_count |-> 0]]

\* A parse_xml_file that forgets the document it holds when the parse fails.
parse_xml_file_result_ClearsOnFailure(xc, heap, files, file_path) ==
    LET content == files[file_path]
        root == Len(heap) + 1
    IN  IF content.kind = "xml"
        THEN [xc |-> [xml_tree |-> root, xml_data |-> root,
                      current_file_path |-> file_path,
                      user_record_count |-> Len(content.doc)],
              heap |-> Append(heap, content.doc),
              ret |-> [success |-> TRUE,
                       message |-> "File validated successfully",
                       user_count |-> Len(content.doc)]]
        ELSE [xc |-> NewXMLController, heap |-> heap,
              ret |-> [success |-> FALSE,
                       message |-> IF content.kind = "malformed"
                                   THEN "XML parsing failed"
                                   ELSE "File not found",
                       user_count |-> 0]]

\* parse_xml_file (lines 19-40): the controller, the heap and the returned
\* tuple.  ET.parse raises before anything is assigned.
parse_xml_file_result(xc, heap, files, file_path) ==
    LET content == files[file_path]
        root == Len(heap) + 1
    IN  IF content.kind = "xml"
        THEN [xc |-> [xml_tree |-> root, xml_data |-> root,
                      current_file_path |-> file_path,
                      user_record_count |-> Len(content.doc)],
              heap |-> Append(heap, content.doc),
              ret |-> [success |-> TRUE,
                       message |-> "File validated successfully",
                       user_count |-> Len(content.doc)]]
        ELSE [xc |-> xc, heap |-> heap,
              ret |-> [success |-> FALSE,
                       message |-> IF content.kind = "malformed"
                                   THEN "XML parsing failed"
                                   ELSE "File not found",
                       user_count |-> 0]]

\* A format_xml_file that ignores dest_path and always writes in place.
format_xml_file_result_IgnoresDest(xc, heap, files, file_path, dest_path, writeOk) ==
    LET content == files[file_path]
        written == [files EXCEPT ![file_path] = Pretty(content)]
        root == Len(heap) + 1
    IN  IF content.kind # "xml"
        THEN [xc |-> xc, heap |-> heap, files |-> files,
              ret |-> [success |-> FALSE,
                       message |-> IF content.kind = "malformed"
                                   THEN "XML parsing failed"
                                   ELSE "Failed to format XML"]]
        ELSE IF ~writeOk
        THEN [xc |-> xc, heap |-> heap, files |-> files,
              ret |-> [success |-> FALSE,
                       message |-> "Failed to format XML"]]
        ELSE [xc |-> [xc EXCEPT !.xml_tree = root, !.xml_data = root,
                                !.user_record_count =
                                    Len(written[file_path].doc)],
              heap |-> Append(heap, written[file_path].doc),
              files |-> written,
              ret |-> [success |-> TRUE,
                       message |-> "XML file formatted successfully"]]

\* format_xml_file (lines 96-138): the controller, the heap, the files and
\* the returned tuple; writeOk is whether open() and write() succeed.
format_xml_file_result(xc, heap, files, file_path, dest_path, writeOk) ==
    LET content == files[file_path]
        dest == IF dest_path = None \/ dest_path = ""
                THEN file_path ELSE dest_path
        written == [files EXCEPT ![dest] = Pretty(content)]
        root == Len(heap) + 1
    IN  IF content.kind # "xml"
        THEN [xc |-> xc, heap |-> heap, files |-> files,
              ret |-> [success |-> FALSE,
                       message |-> IF content.kind = "malformed"
                                   THEN "XML parsing failed"
                                   ELSE "Failed to format XML"]]
        ELSE IF ~writeOk
        THEN [xc |-> xc, heap |-> heap, files |-> files,
              ret |-> [success |-> FALSE,
                       message |-> "Failed to format XML"]]
        ELSE [xc |-> [xc EXCEPT !.xml_tree = root, !.xml_data = root,
                                !.user_record_count =
                                    Len(written[file_path].doc)],
              heap |-> Append(heap, written[file_path].doc),
              files |-> written,
              ret |-> [success |-> TRUE,
                       message |-> "XML file formatted successfully"]]

\* validate_xml_structure (lines 63-94): it parses the file into locals.
validate_xml_structure_result(files, file_path) ==
    LET content == files[file_path]
    IN  IF content.kind = "xml"
        THEN [success |-> TRUE, users |-> Len(content.doc),
              valid_users |->
                Cardinality({ k \in DOMAIN content.doc :
                                Truthy(content.doc[k].idAttr) }),
              error |-> None]
        ELSE [success |-> FALSE, users |-> 0, valid_users |-> 0,
              error |-> IF content.kind = "malformed"
                        THEN "XML validation failed"
                        ELSE "Validation error"]

\* ------------------------------------------------------------------------
\* State
\* ------------------------------------------------------------------------

VARIABLES
    dc_xml_data,    \* DataController.xml_data
    gc_xml_data,    \* GraphController.xml_data
    G,              \* GraphController.G
    metrics,        \* GraphController.metrics
    json_file,      \* content of the file export_to_json writes
    ret,            \* the tuple the last operation returned
    win             \* the window, its XMLController and the files

vars == <<dc_xml_data, gc_xml_data, G, metrics, json_file, ret, win>>

\* The controllers used without a window.
NoWindow == <<>>

\* The path export_to_json is asked to write.
JsonPath == "out.json"

\* A <user> element that holds another <user> element: findall('.//user')
\* yields the outer one and then the inner one, and the outer one's
\* findall('.//post') yields its own posts and then those of the inner one.
\* The second component of the document is the set of the positions of the
\* user elements that lie inside the user element before them.
Nest(outer, inner) ==
    << << [outer EXCEPT !.posts = @ \o inner.posts], inner >>, {2} >>

NestedData ==
    { Nest(User("1", Absent, "Alice", <<>>, <<>>, << Post("p1", "3") >>),
           User("2", Absent, "Bob", <<>>, <<>>, << Post("p2", "20") >>)),
      Nest(User("1", Absent, "Alice", <<>>, <<>>, <<>>),
           User(None, Absent, "Bob", <<>>, <<>>,
                << Post("p2", "3"), Post("p3", Absent) >>)) }

\* Documents a window loads over the current one.
ReloadDocs ==
    { <<>>,
      << User("1", Absent, "Alice", <<>>, <<>>, <<>>) >>,
      << User("2", Absent, "Bob", <<"1">>, <<"9">>, <<Post("p1", "3")>>),
         User(None, Absent, Absent, <<>>, <<>>, <<>>) >> }

\* DataController(xml_data) and GraphController(xml_data): both controllers
\* of a window are given the same document, or none.
Init ==
    /\ dc_xml_data \in {NoData} \cup { <<d>> : d \in Docs } \cup NestedData
    /\ gc_xml_data = dc_xml_data
    /\ G = NoGraph
    /\ metrics = EmptyDict
    /\ json_file = NoFile
    /\ ret = [op |-> "init"]
    /\ win = NoWindow

\* A set_xml_data of the graph controller that only replaces the document
\* and keeps the graph and the metrics it has.
set_xml_data_KeepsGraph(d) ==
    /\ dc_xml_data' = <<d>>
    /\ gc_xml_data' = <<d>>
    /\ ret' = [op |-> "set_xml_data"]
    /\ UNCHANGED <<G, metrics, json_file, win>>

\* A window hands a newly parsed document to both controllers.
set_xml_data(d) ==
    /\ dc_xml_data' = <<d>>
    /\ gc_xml_data' = <<d>>
    /\ G' = NoGraph
    /\ metrics' = EmptyDict
    /\ ret' = [op |-> "set_xml_data"]
    /\ UNCHANGED <<json_file, win>>

parse_user_data ==
    /\ ret' = parse_user_data_result(dc_xml_data)
    /\ UNCHANGED <<dc_xml_data, gc_xml_data, G, metrics, json_file, win>>

\* A check_for_errors that removes from the tree, which both controllers
\* hold, the user elements it reports as lacking an id.
check_for_errors_DropsInvalid ==
    LET kept == IF dc_xml_data = NoData THEN NoData
                ELSE << SelectSeq(dc_xml_data[1],
                                  LAMBDA u : Truthy(ResolveId(u))) >>
    IN  /\ ret' = check_for_errors_result(dc_xml_data)
        /\ dc_xml_data' = kept
        /\ gc_xml_data' = kept
        /\ UNCHANGED <<G, metrics, json_file, win>>

check_for_errors ==
    /\ ret' = check_for_errors_result(dc_xml_data)
    /\ UNCHANGED <<dc_xml_data, gc_xml_data, G, metrics, json_file, win>>

calculate_statistics ==
    /\ ret' = calculate_statistics_result(dc_xml_data)
    /\ UNCHANGED <<dc_xml_data, gc_xml_data, G, metrics, json_file, win>>

export_to_json(writeOk) ==
    LET r == export_to_json_result(dc_xml_data, JsonPath, json_file, writeOk)
    IN  /\ ret' = r.ret
        /\ json_file' = r.file
        /\ UNCHANGED <<dc_xml_data, gc_xml_data, G, metrics, win>>

build_graph ==
    LET r == build_graph_result(gc_xml_data, G, metrics)
    IN  /\ ret' = r.ret
        /\ G' = r.G
        /\ metrics' = r.metrics
        /\ UNCHANGED <<dc_xml_data, gc_xml_data, json_file, win>>

Next ==
    \/ \E d \in ReloadDocs : set_xml_data(d)
    \/ parse_user_data
    \/ check_for_errors
    \/ calculate_statistics
    \/ \E writeOk \in BOOLEAN : export_to_json(writeOk)
    \/ build_graph

Spec == Init /\ [][Next]_vars

\* ------------------------------------------------------------------------
\* The file windows and the command line
\* ------------------------------------------------------------------------

\* The paths of the model and the contents they start with.
WinPaths == {"a.xml", "b.xml"}
WinContents ==
    { Missing, Malformed,
      XmlFile(<< User("1", Absent, "Alice", <<>>, <<>>, <<>>) >>),
      XmlFile(ScenarioA) }

\* The texts typed into the manual window: blank, not well-formed, or XML.
Blank == [kind |-> "blank", doc |-> <<>>, pretty |-> FALSE]
ManualTexts ==
    { Blank, Malformed,
      XmlFile(<< User("1", Absent, "Alice", <<>>, <<>>, <<>>) >>),
      XmlFile(ScenarioA) }

\* BrowseWindow.__init__ (lines 26-34), which ManualWindow inherits, and
\* MainWindow.__init__ (lines 24-31): the three controllers are new and no
\* path is chosen.  kind tells the classes apart; files is the file system;
\* parsed_from[n] is the path the root n was parsed from ("" for a text).
NewWindow(kind, files) ==
    [kind |-> kind, files |-> files, heap |-> <<>>, parsed_from |-> <<>>,
     xml_controller |-> NewXMLController,
     data_controller |-> NoObject, graph_controller |-> NoObject,
     current_file_path |-> "", file_path_edit |-> "",
     user_record_count |-> 0]

\* The xml_data of a controller that holds the root.
DataOf(root, heap) == IF root = NoObject THEN NoData ELSE << heap[root] >>

WinInit ==
    /\ win \in { NewWindow(kind, files) :
                   kind \in {"browse", "main"},
                   files \in [WinPaths -> WinContents] }
               \cup { NewWindow("manual", [p \in WinPaths |-> Missing]) }
    /\ dc_xml_data = NoData
    /\ gc_xml_data = NoData
    /\ G = NoGraph
    /\ metrics = EmptyDict
    /\ json_file = NoFile
    /\ ret = [op |-> "init"]

\* browse_file: the dialog returns a path, or "" when it is cancelled.  The
\* manual window overrides it with a method that does nothing.
browse_file(file_path) ==
    /\ win' = IF file_path # "" /\ win.kind # "manual"
              THEN [win EXCEPT !.file_path_edit = file_path,
                               !.current_file_path = file_path]
              ELSE win
    /\ ret' = [op |-> "browse_file", file_path |-> file_path]
    /\ UNCHANGED <<dc_xml_data, gc_xml_data, G, metrics, json_file>>

\* upload_and_parse of the file windows.
upload_and_parse ==
    /\ win.kind # "manual"
    /\ LET file_path == win.file_path_edit
           r == parse_xml_file_result(win.xml_controller, win.heap, win.files,
                                      file_path)
           xml_data == r.xc.xml_data
       IN  IF file_path = ""
           THEN /\ ret' = [op |-> "upload_and_parse", success |-> FALSE,
                           message |-> "No file selected"]
                /\ UNCHANGED <<dc_xml_data, gc_xml_data, G, metrics,
                               json_file, win>>
           ELSE /\ Len(win.heap) < MaxObjects
                /\ ret' = [op |-> "upload_and_parse",
                           success |-> r.ret.success,
                           message |-> r.ret.message]
                /\ IF r.ret.success
                   THEN /\ win' = [win EXCEPT
                                     !.xml_controller = r.xc,
                                     !.heap = r.heap,
                                     !.parsed_from = Append(@, file_path),
                                     !.current_file_path = file_path,
                                     !.user_record_count = r.ret.user_count,
                                     !.data_controller = xml_data,
                                     !.graph_controller = xml_data]
                        /\ dc_xml_data' = DataOf(xml_data, r.heap)
                        /\ gc_xml_data' = DataOf(xml_data, r.heap)
                        /\ G' = NoGraph
                        /\ metrics' = EmptyDict
                   ELSE /\ win' = [win EXCEPT !.xml_controller = r.xc,
                                              !.heap = r.heap]
                        /\ UNCHANGED <<dc_xml_data, gc_xml_data, G, metrics>>
                /\ UNCHANGED json_file

\* upload_and_parse of the manual window (manual_window.py lines 72-110):
\* the text of the editor is parsed; a blank text is refused.
manual_upload_and_parse(xml_text) ==
    /\ win.kind = "manual"
    /\ LET r == parse_xml_string_result(win.xml_controller, win.heap,
                                        xml_text)
           xml_data == r.xc.xml_data
       IN  IF xml_text = Blank
           THEN /\ ret' = [op |-> "upload_and_parse", success |-> FALSE,
                           message |-> "No XML text entered"]
                /\ UNCHANGED <<dc_xml_data, gc_xml_data, G, metrics,
                               json_file, win>>
           ELSE /\ Len(win.heap) < MaxObjects
                /\ ret' = [op |-> "upload_and_parse",
                           success |-> r.ret.success,
                           message |-> r.ret.message]
                /\ IF r.ret.success
                   THEN /\ win' = [win EXCEPT
                                     !.xml_controller = r.xc,
                                     !.heap = r.heap,
                                     !.parsed_from = Append(@, ""),
                                     !.current_file_path = "",
                                     !.user_record_count = r.ret.user_count,
                                     !.data_controller = xml_data,
                                     !.graph_controller = xml_data]
                        /\ dc_xml_data' = DataOf(xml_data, r.heap)
                        /\ gc_xml_data' = DataOf(xml_data, r.heap)
                        /\ G' = NoGraph
                        /\ metrics' = EmptyDict
                   ELSE /\ win' = [win EXCEPT !.xml_controller = r.xc,
                                              !.heap = r.heap]
                        /\ UNCHANGED <<dc_xml_data, gc_xml_data, G,
                                       metrics>>
                /\ UNCHANGED json_file

\* format_xml: BrowseWindow only reports the outcome, MainWindow hands the
\* reloaded root to the other two controllers.
format_xml(writeOk) ==
    LET file_path == win.current_file_path
        r == format_xml_file_result(win.xml_controller, win.heap, win.files,
                                    file_path, None, writeOk)
        xml_data == r.xc.xml_data
        formatted == [win EXCEPT !.xml_controller = r.xc, !.heap = r.heap,
                                 !.parsed_from =
                                     IF r.ret.success
                                     THEN Append(@, file_path) ELSE @,
                                 !.files = r.files]
    IN  IF file_path = ""
        THEN /\ ret' = [op |-> "format_xml", success |-> FALSE,
                        message |-> "No file loaded"]
             /\ UNCHANGED <<dc_xml_data, gc_xml_data, G, metrics,
                            json_file, win>>
        ELSE /\ Len(win.heap) < MaxObjects
             /\ ret' = [op |-> "format_xml", success |-> r.ret.success,
                        message |-> r.ret.message]
             /\ IF r.ret.success /\ win.kind = "main"
                THEN /\ win' = [formatted EXCEPT
                                  !.data_controller = xml_data,
                                  !.graph_controller = xml_data,
                                  !.user_record_count =
                                      r.xc.user_record_count]
                     /\ dc_xml_data' = DataOf(xml_data, r.heap)
                     /\ gc_xml_data' = DataOf(xml_data, r.heap)
                     /\ G' = NoGraph
                     /\ metrics' = EmptyDict
                ELSE /\ win' = formatted
                     /\ UNCHANGED <<dc_xml_data, gc_xml_data, G, metrics>>
             /\ UNCHANGED json_file

\* validate_xml: the structure of the file at current_file_path.
validate_xml ==
    /\ ret' = IF win.current_file_path = ""
              THEN [op |-> "validate_xml", file_path |-> "",
                    success |-> FALSE, users |-> 0, valid_users |-> 0,
                    error |-> "No file loaded"]
              ELSE LET r == validate_xml_structure_result(
                                win.files, win.current_file_path)
                   IN  [op |-> "validate_xml",
                        file_path |-> win.current_file_path,
                        success |-> r.success, users |-> r.users,
                        valid_users |-> r.valid_users, error |-> r.error]
    /\ UNCHANGED <<dc_xml_data, gc_xml_data, G, metrics, json_file, win>>

\* The export action of the windows.  BrowseWindow (line 599) calls
\* export_to_json(file_path) without the second argument the method
\* requires: Python raises TypeError before the method runs.  MainWindow
\* (line 503) passes both.
window_export_to_json(writeOk) ==
    IF win.kind # "main"
    THEN /\ ret' = [op |-> "window_export_to_json", writable |-> writeOk,
                    raised |-> "TypeError",
                    success |-> FALSE, message |-> "", error |-> None]
         /\ UNCHANGED <<dc_xml_data, gc_xml_data, G, metrics, json_file,
                        win>>
    ELSE LET r == export_to_json_result(dc_xml_data, JsonPath, json_file,
                                        writeOk)
         IN  /\ ret' = [op |-> "window_export_to_json",
                        writable |-> writeOk, raised |-> None,
                        success |-> r.ret.success,
                        message |-> r.ret.message, error |-> r.ret.error]
             /\ json_file' = r.file
             /\ UNCHANGED <<dc_xml_data, gc_xml_data, G, metrics, win>>

\* The json command (cli.py lines 57-67), a process of its own with a new
\* XMLController and DataController: the export is called with file_path
\* only and raises TypeError; nothing is written and nothing is printed.
\* writeOk is whether the output path can be written.
cli_json(input, writeOk) ==
    LET ack == parse_xml_file_result(NewXMLController, <<>>, win.files,
                                     input)
    IN  /\ ret' = IF ack.ret.success
                  THEN [op |-> "cli_json", input |-> input,
                        writable |-> writeOk, raised |-> "TypeError",
                        success |-> FALSE, message |-> "", error |-> None,
                        printed |-> ""]
                  ELSE [op |-> "cli_json", input |-> input,
                        writable |-> writeOk, raised |-> None,
                        success |-> FALSE, message |-> "", error |-> None,
                        printed |-> "invalid argument"]
        /\ UNCHANGED <<dc_xml_data, gc_xml_data, G, metrics, json_file,
                       win>>

\* The format command (cli.py lines 50-55), a process of its own with a new
\* XMLController.  A failure is reported through ack[2] of a tuple of two,
\* which raises IndexError.  editor and editor_data are the controller and
\* the document it holds when the command ends.
cli_format(input, output, writeOk) ==
    LET r == format_xml_file_result(NewXMLController, <<>>, win.files,
                                    input, output, writeOk)
    IN  /\ ret' = [op |-> "cli_format", file_path |-> input,
                   dest_path |-> output, success |-> r.ret.success,
                   message |-> r.ret.message,
                   raised |-> IF r.ret.success THEN None ELSE "IndexError",
                   editor |-> r.xc,
                   editor_data |-> DataOf(r.xc.xml_data, r.heap)]
        /\ win' = [win EXCEPT !.files = r.files]
        /\ UNCHANGED <<dc_xml_data, gc_xml_data, G, metrics, json_file>>

WinNext ==
    \/ \E file_path \in WinPaths \cup {""} : browse_file(file_path)
    \/ upload_and_parse
    \/ \E xml_text \in ManualTexts : manual_upload_and_parse(xml_text)
    \/ \E writeOk \in BOOLEAN : format_xml(writeOk)
    \/ validate_xml
    \/ \E writeOk \in BOOLEAN : window_export_to_json(writeOk)
    \/ \E input \in WinPaths, writeOk \in BOOLEAN : cli_json(input, writeOk)
    \/ \E input \in WinPaths, output \in WinPaths \cup {""},
          writeOk \in BOOLEAN : cli_format(input, output, writeOk)
    \/ parse_user_data

WinSpec == WinInit /\ [][WinNext]_vars

\* ------------------------------------------------------------------------
\* Properties
\* ------------------------------------------------------------------------

\* The <user> elements of the document the data controller holds, and of
\* the one the graph controller holds.
DataUsersOf == IF dc_xml_data = NoData THEN <<>> ELSE dc_xml_data[1]
GraphUsersOf == IF gc_xml_data = NoData THEN <<>> ELSE gc_xml_data[1]

\* The last operation was a build_graph that succeeded.
Built == ret.op = "build_graph" /\ ret.success

\* The id of a user element: its id attribute, else the text of its <id>.
IdOf(user) ==
    IF user.idAttr # None THEN user.idAttr
    ELSE IF user.idChild = Absent THEN None ELSE user.idChild

\* The targets a user element lists, as written: the texts of the <id> of
\* its <follower>s, then the user_id of its <friend>s.
ListedTexts(user) ==
    SelectSeq(user.followerIds, LAMBDA t : t \notin {Absent, None, ""})
    \o SelectSeq(user.friends, LAMBDA t : t \notin {None, ""})

\* The same targets with the whitespace around the texts removed.
ListedTargets(user) ==
    LET texts == ListedTexts(user)
    IN  [k \in DOMAIN texts |-> strip(texts[k])]

\* How many entries of the sequence s satisfy P.
Count(s, P(_)) == Cardinality({ k \in DOMAIN s : P(s[k]) })

One == Quot(1, 1)

\* C1: after a successful build_graph of a graph with at least 2 nodes,
\* 0 <= density <= 1.
C1_DensityInUnitInterval ==
    (Built /\ metrics.num_nodes >= 2)
        => QuotLeq(Zero, metrics.density) /\ QuotLeq(metrics.density, One)

\* The last operation was a check_for_errors that succeeded.
Checked == ret.op = "check_for_errors" /\ ret.success

\* The ids of the users of the document: the ids that are not empty.
DocIds(users) ==
    { IdOf(users[k]) : k \in { j \in DOMAIN users : Truthy(IdOf(users[j])) } }

\* The listed texts, over the user elements at the positions K, that are
\* not the id of any user.
DanglingOccurrences(users, K) ==
    SumSeq([k \in DOMAIN users |->
              IF k \in K
              THEN Count(ListedTexts(users[k]),
                         LAMBDA t : t \notin DocIds(users))
              ELSE 0])

\* How often the user elements with id uid list the text t.
Occurrences(users, uid, t) ==
    SumSeq([k \in DOMAIN users |->
              IF IdOf(users[k]) = uid
              THEN Count(ListedTexts(users[k]), LAMBDA x : x = t)
              ELSE 0])

AllListedTexts(users) ==
    UNION { Range(ListedTexts(users[k])) : k \in DOMAIN users }

IsFollowerMsg(m) == m.kind = "Follower ID does not exist in network"

WithId(users) == { k \in DOMAIN users : Truthy(IdOf(users[k])) }

\* C2 as stated: every occurrence of a target that is not the id of a user,
\* in any user element, yields exactly one follower warning and no error.
C2_EveryDanglingOccurrenceWarned ==
    Checked =>
        /\ Count(ret.warnings, IsFollowerMsg)
             = DanglingOccurrences(DataUsersOf, DOMAIN DataUsersOf)
        /\ Count(ret.errors, IsFollowerMsg) = 0

\* C2 amended: in the user elements that have a non-empty id, every
\* occurrence of a target whose text is not the id of any user yields exactly
\* one warning "User <id>: Follower ID <target> does not exist in network"
\* and never an error; a target that is the id of a user yields no warning.
C2_DanglingTargetsOfIdentifiedUsersWarned ==
    Checked =>
        LET users == DataUsersOf
        IN  /\ \A uid \in DocIds(users) : \A t \in AllListedTexts(users) :
                 Count(ret.warnings,
                       LAMBDA w : w = FollowerMissing(uid, t))
                   = IF t \in DocIds(users) THEN 0
                     ELSE Occurrences(users, uid, t)
            /\ Count(ret.warnings, IsFollowerMsg)
                 = DanglingOccurrences(users, WithId(users))
            /\ Count(ret.errors, IsFollowerMsg) = 0

\* A check of a document in which a user with an id lists a dangling target
\* and a target that is a user.
C2_Witness ==
    /\ Checked
    /\ \E k \in WithId(DataUsersOf) :
          /\ \E t \in Range(ListedTexts(DataUsersOf[k])) :
                t \notin DocIds(DataUsersOf)
          /\ \E t \in Range(ListedTexts(DataUsersOf[k])) :
                t \in DocIds(DataUsersOf)
    /\ Count(ret.warnings, IsFollowerMsg) >= 1

\* C3: every pair of the edges build_graph returns has both ends among the
\* keys of the nodes it returns.
C3_ReturnedEdgesJoinNodes ==
    Built => \A e \in Range(ret.edges) :
                /\ e[1] \in Range(NodeIds(ret.nodes))
                /\ e[2] \in Range(NodeIds(ret.nodes))

\* The ordered pairs (U, V), both node ids, such that a user element with id
\* U lists V.
ListedPairs(users, ids) ==
    { p \in UNION { { <<IdOf(users[k]), t>> :
                        t \in Range(ListedTargets(users[k])) } :
                    k \in DOMAIN users } :
        p[1] \in ids /\ p[2] \in ids }

\* C4: num_edges is the number of distinct ordered pairs (U, V) of node ids
\* such that a user element with id U lists V; a pair listed twice counts
\* once and dangling targets count for nothing.
C4_NumEdgesIsDistinctPairs ==
    Built => metrics.num_edges
               = Cardinality(ListedPairs(GraphUsersOf,
                                         Range(NodeIds(ret.nodes))))

HasDuplicateTarget(user) ==
    Len(ListedTargets(user)) > Cardinality(Range(ListedTargets(user)))

\* A graph built from a document with a target listed twice and a dangling
\* target.
C4_Witness ==
    /\ Built
    /\ metrics.num_edges >= 1
    /\ \E k \in DOMAIN GraphUsersOf :
          IdOf(GraphUsersOf[k]) # None /\ HasDuplicateTarget(GraphUsersOf[k])
    /\ \E k \in DOMAIN GraphUsersOf :
          /\ IdOf(GraphUsersOf[k]) # None
          /\ \E t \in Range(ListedTargets(GraphUsersOf[k])) :
                t \notin Range(NodeIds(ret.nodes))

SameId(users) ==
    \E i, j \in DOMAIN users :
        i < j /\ IdOf(users[i]) # None /\ IdOf(users[i]) = IdOf(users[j])

\* C5: num_nodes <= N for a document of N user elements, num_nodes = N when
\* every user element has an id and no two share one, and num_nodes < N
\* when two user elements share an id.
C5_NumNodesAtMostUsers ==
    Built =>
        LET users == GraphUsersOf
            N == Len(users)
        IN  /\ metrics.num_nodes <= N
            /\ (WithId(users) = DOMAIN users /\ ~SameId(users))
                  => metrics.num_nodes = N
            /\ SameId(users) => metrics.num_nodes < N

\* A graph built from two user elements with the same id.
C5_Witness ==
    /\ Built
    /\ Len(GraphUsersOf) = MaxUsers
    /\ SameId(GraphUsersOf)
    /\ metrics.num_nodes = MaxUsers - 1

\* The last operation was an export_to_json that succeeded; json_file is
\* what it wrote.
Exported == ret.op = "export_to_json" /\ ret.success

\* The non-empty ids of the user elements, in document order.
RECURSIVE IdsInOrder(_, _)
IdsInOrder(users, n) ==
    IF n = 0 THEN <<>>
    ELSE IF Truthy(IdOf(users[n]))
         THEN Append(IdsInOrder(users, n - 1), IdOf(users[n]))
         ELSE IdsInOrder(users, n - 1)

ExportedIds == [k \in DOMAIN json_file.users |-> json_file.users[k].id]

\* C6: the exported users array has one entry, in document order, for each
\* user element whose id resolves, and none for a user element whose id is
\* missing or empty.
C6_ExportSkipsUsersWithoutId ==
    Exported => ExportedIds = IdsInOrder(DataUsersOf, Len(DataUsersOf))

\* C7: the user count of the summary message equals the number of entries
\* of the exported users array.
C7_SummaryCountsExportedUsers ==
    Exported => ret.message.count = Len(json_file.users)

Operations ==
    {"parse_user_data", "check_for_errors", "calculate_statistics",
     "export_to_json", "build_graph"}

\* The result components of a returned tuple are the empty ones.
EmptyResult(r) ==
    CASE r.op \in {"parse_user_data", "calculate_statistics"} ->
            r.stats = EmptyDict
      [] r.op = "check_for_errors" ->
            r.errors = EmptyList /\ r.warnings = EmptyList
      [] r.op = "export_to_json" -> r.message = ""
      [] r.op = "build_graph" ->
            r.nodes = EmptyDict /\ r.edges = EmptyList

\* C8: while no document is set, every operation returns success = False,
\* empty results and the "No data loaded" error, no file is written and
\* the graph and the metrics stay as they were constructed.
C8_NoDataLoadedHasNoEffect ==
    (dc_xml_data = NoData /\ gc_xml_data = NoData) =>
        /\ json_file = NoFile
        /\ G = NoGraph
        /\ metrics = EmptyDict
        /\ ret.op \in Operations =>
              /\ ret.success = FALSE
              /\ ret.error = NoDataLoaded
              /\ EmptyResult(ret)

\* build_graph was called with no document set.
C8_Witness ==
    /\ gc_xml_data = NoData
    /\ ret.op = "build_graph"
    /\ ret.error = NoDataLoaded

\* C9: on a loaded document without user elements build_graph fails with
\* "No users found" and leaves the graph and the metrics unset, and
\* calculate_statistics succeeds with every count and average 0.
C9_ZeroUsers ==
    (dc_xml_data = << <<>> >> /\ gc_xml_data = << <<>> >>) =>
        /\ G = NoGraph
        /\ metrics = EmptyDict
        /\ ret.op = "build_graph" =>
              /\ ret.success = FALSE
              /\ ret.error = NoUsersFound
        /\ ret.op = "calculate_statistics" =>
              /\ ret.success
              /\ ret.error = None
              /\ ret.stats.total_users = 0
              /\ ret.stats.total_posts = 0
              /\ ret.stats.total_followers = 0
              /\ ret.stats.total_following = 0
              /\ QuotEq(ret.stats.avg_age, Zero)
              /\ QuotEq(ret.stats.avg_followers, Zero)
              /\ QuotEq(ret.stats.avg_posts, Zero)

\* build_graph was called on a document without user elements.
C9_Witness ==
    /\ gc_xml_data = << <<>> >>
    /\ ret.op = "build_graph"
    /\ ret.error = NoUsersFound

NameMissing(user) == user.name \in {Absent, None, ""}

\* C10: check_for_errors emits "User #<ordinal>: Missing user ID" once for
\* each user element without an id and for no other; such a user gets no
\* name error and no warning; a user with an id gets "User <id>: Missing
\* name" exactly when its name is missing or empty; there is no other error.
C10_AtMostOneErrorPerUser ==
    Checked =>
        LET users == DataUsersOf
        IN  /\ \A k \in DOMAIN users :
                 Count(ret.errors, LAMBDA e : e = MissingUserID(k))
                   = IF Truthy(IdOf(users[k])) THEN 0 ELSE 1
            /\ \A uid \in DocIds(users) :
                 Count(ret.errors, LAMBDA e : e = MissingName(uid))
                   = Cardinality({ k \in DOMAIN users :
                                     /\ IdOf(users[k]) = uid
                                     /\ NameMissing(users[k]) })
            /\ Len(ret.errors)
                 = Cardinality({ k \in DOMAIN users :
                                   \/ ~Truthy(IdOf(users[k]))
                                   \/ NameMissing(users[k]) })
            /\ \A k \in DOMAIN ret.errors :
                 ret.errors[k].kind = "Missing name"
                    => ret.errors[k].user \in DocIds(users)
            /\ \A k \in DOMAIN ret.warnings :
                 ret.warnings[k].user \in DocIds(users)

\* A check of a document whose first user has no id, no name, a post
\* without id and a dangling target, and whose last user has an id and a name.
C10_Witness ==
    /\ Checked
    /\ Len(DataUsersOf) = MaxUsers
    /\ ~Truthy(IdOf(DataUsersOf[1]))
    /\ NameMissing(DataUsersOf[1])
    /\ \E k \in DOMAIN DataUsersOf[1].posts :
          ~Truthy(DataUsersOf[1].posts[k].id)
    /\ "9" \in Range(ListedTexts(DataUsersOf[1]))
    /\ Truthy(IdOf(DataUsersOf[MaxUsers]))
    /\ ~NameMissing(DataUsersOf[MaxUsers])
    /\ Len(ret.errors) = 1

\* The node ids whose user elements list v, and the node ids u lists.
ListersOf(users, ids, v) ==
    { p[1] : p \in { q \in ListedPairs(users, ids) : q[2] = v } }
ListedBy(users, ids, u) ==
    { p[2] : p \in { q \in ListedPairs(users, ids) : q[1] = u } }

\* C11: a user with id U that lists V gives the edge (U, V).  After a
\* successful build_graph, in_degrees[V] is the number of distinct node ids
\* whose blocks list V and out_degrees[U] the number of distinct node ids U
\* lists; in the document where only user 2 lists user 1 the edges are
\* [(2, 1)] and most_influential is id 1 with followers = 1.
C11_EdgeDirectionAndDegrees ==
    Built =>
        LET users == GraphUsersOf
            ids == Range(NodeIds(ret.nodes))
        IN  /\ \A k \in DOMAIN users : \A t \in Range(ListedTargets(users[k])) :
                 IdOf(users[k]) # None
                    => <<IdOf(users[k]), t>> \in Range(ret.edges)
            /\ \A e \in Range(ret.edges) :
                 \E k \in DOMAIN users :
                    /\ IdOf(users[k]) = e[1]
                    /\ e[2] \in Range(ListedTargets(users[k]))
            /\ DOMAIN metrics.in_degrees = ids
            /\ DOMAIN metrics.out_degrees = ids
            /\ \A v \in ids :
                 /\ metrics.in_degrees[v]
                      = Cardinality(ListersOf(users, ids, v))
                 /\ metrics.out_degrees[v]
                      = Cardinality(ListedBy(users, ids, v))
            /\ users = ScenarioA =>
                 /\ ret.nodes = << [id |-> "1", name |-> "Alice"],
                                   [id |-> "2", name |-> "Bob"] >>
                 /\ ret.edges = << <<"2", "1">> >>
                 /\ metrics.most_influential.id = "1"
                 /\ metrics.most_influential.followers = 1

\* The graph of the document where only user 2 lists user 1.
C11_Witness ==
    /\ Built
    /\ GraphUsersOf = ScenarioA
    /\ metrics.in_degrees["1"] = 1
    /\ metrics.out_degrees["2"] = 1

\* The position of the first user element that carries the id.
FirstPos(users, id) ==
    CHOOSE k \in DOMAIN users :
        /\ IdOf(users[k]) = id
        /\ \A j \in 1..(k - 1) : IdOf(users[j]) # id

\* The id is a node of maximal degree and, among the nodes of that degree,
\* the one whose first user element comes first in the document.
FirstOfMaximal(users, degrees, id) ==
    /\ id \in DOMAIN degrees
    /\ \A v \in DOMAIN degrees :
          /\ degrees[v] <= degrees[id]
          /\ degrees[v] = degrees[id]
                => FirstPos(users, id) <= FirstPos(users, v)

\* C12: after a successful build_graph, most_influential has maximal
\* in-degree and most_active maximal out-degree; among the nodes tied for the
\* maximum the first in node insertion order is chosen, and the reported
\* followers/following is that node's entry in in_degrees/out_degrees.
C12_MostInfluentialIsFirstMaximal ==
    Built =>
        LET mi == metrics.most_influential
            ma == metrics.most_active
        IN  /\ FirstOfMaximal(GraphUsersOf, metrics.in_degrees, mi.id)
            /\ FirstOfMaximal(GraphUsersOf, metrics.out_degrees, ma.id)
            /\ mi.followers = metrics.in_degrees[mi.id]
            /\ ma.following = metrics.out_degrees[ma.id]

\* Users "2" and "1", in this order, each listed once by the other: the tie
\* goes to "2".
C12_Witness ==
    /\ Built
    /\ NodeIds(ret.nodes) = <<"2", "1">>
    /\ metrics.in_degrees["1"] = 1
    /\ metrics.in_degrees["2"] = 1
    /\ metrics.most_influential.id = "2"
    /\ metrics.most_active.id = "2"

\* The pairs (id, follower) of the first n exported users, in order.
RECURSIVE ExportedPairs(_, _)
ExportedPairs(exported, n) ==
    IF n = 0 THEN <<>>
    ELSE ExportedPairs(exported, n - 1)
         \o [k \in DOMAIN exported[n].followers |->
                <<exported[n].id, exported[n].followers[k]>>]

\* The user elements whose id resolves, in document order.
Resolvable(users) == SelectSeq(users, LAMBDA u : IdOf(u) # None)

\* The edges build_graph returns for the document the graph controller
\* holds.
EdgesOfDocument == build_graph_result(gc_xml_data, G, metrics).ret.edges

\* C13: for every user element with a resolvable id, the followers list
\* export_to_json writes is the Shape A targets followed by the Shape B
\* targets, in order and with duplicates kept, and is the sequence of the
\* targets of the edges build_graph returns for that user element; per user
\* id the exported targets and the targets of the edges are the same set.
C13_ExportedFollowersAreEdgeTargets ==
    Exported =>
        LET users == Resolvable(DataUsersOf)
            exported == json_file.users
        IN  /\ Len(exported) = Len(users)
            /\ \A k \in DOMAIN exported :
                 /\ exported[k].id = IdOf(users[k])
                 /\ exported[k].followers = ListedTargets(users[k])
            /\ ExportedPairs(exported, Len(exported)) = EdgesOfDocument
            /\ \A k \in DOMAIN exported :
                 UNION { Range(exported[j].followers) :
                           j \in { i \in DOMAIN exported :
                                     exported[i].id = exported[k].id } }
                   = { e[2] : e \in { d \in Range(EdgesOfDocument) :
                                         d[1] = exported[k].id } }

\* An export of a user that lists "1" in Shape A and "2" in Shape B and of
\* a user that lists the same target twice.
C13_Witness ==
    /\ Exported
    /\ \E k \in DOMAIN json_file.users :
          json_file.users[k].followers = <<"1", "2">>
    /\ \E k \in DOMAIN json_file.users :
          /\ HasDuplicateTarget(Resolvable(DataUsersOf)[k])
          /\ Len(json_file.users[k].followers) = 2
    /\ Len(EdgesOfDocument) = 4

\* The last operation was a parse_user_data that succeeded.
Parsed == ret.op = "parse_user_data" /\ ret.success

\* C14: for a document with at least one user, sample_user holds the first
\* user's id and the first user's name, with "N/A" for whichever is absent;
\* a first user missing its name is shown as "N/A" and gets exactly one
\* error "User <id>: Missing name" from check_for_errors.
C14_SampleUserIsFirstUsersIdAndName ==
    LET users == DataUsersOf
        first == users[1]
    IN  /\ (Parsed /\ users # <<>>) =>
              /\ ret.stats.sample_user.id
                   = (IF IdOf(first) = None THEN "N/A" ELSE IdOf(first))
              /\ ret.stats.sample_user.username
                   = (IF first.name = Absent THEN "N/A" ELSE first.name)
        /\ (/\ Checked /\ users # <<>>
            /\ first.name = Absent /\ Truthy(IdOf(first))) =>
              Count(ret.errors,
                    LAMBDA m : m = MissingName(IdOf(first)))
                = Count(users, LAMBDA u : IdOf(u) = IdOf(first)
                                          /\ NameMissing(u))

\* The last operation was a calculate_statistics that succeeded.
Calculated == ret.op = "calculate_statistics" /\ ret.success

\* The value of a scalar child: the integer its text denotes, 0 when the
\* child is absent, has no text or its text is no integer.
ScalarValue(c) ==
    IF c \notin {Absent, None} /\ strip(c) \in IntTexts THEN int(c) ELSE 0

SumOfFollowers(users) ==
    SumSeq([k \in DOMAIN users |-> ScalarValue(users[k].followers)])
SumOfFollowing(users) ==
    SumSeq([k \in DOMAIN users |-> ScalarValue(users[k].following)])
NumberOfPosts(users) ==
    SumSeq([k \in DOMAIN users |-> Len(users[k].posts)])

\* C15: parse_user_data and calculate_statistics return the same
\* total_users, total_followers, total_following and total_posts for the
\* loaded document; total_followers and total_following are the sums of the
\* parsable scalar texts of the followers and following children (0 for an
\* unparsable or absent one), whatever follower or friend entries are listed.
C15_TotalsAreScalarSums ==
    (Parsed \/ Calculated) =>
        LET users == DataUsersOf
            other == IF Parsed
                     THEN calculate_statistics_result(dc_xml_data).stats
                     ELSE parse_user_data_result(dc_xml_data).stats
        IN  /\ ret.stats.total_users = Len(users)
            /\ ret.stats.total_followers = SumOfFollowers(users)
            /\ ret.stats.total_following = SumOfFollowing(users)
            /\ ret.stats.total_posts = NumberOfPosts(users)
            /\ ret.stats.total_users = other.total_users
            /\ ret.stats.total_followers = other.total_followers
            /\ ret.stats.total_following = other.total_following
            /\ ret.stats.total_posts = other.total_posts

\* Statistics of a document with a user whose followers text is "3" over two
\* <follower> entries and a user whose followers text is no integer.
C15_Witness ==
    /\ Calculated
    /\ \E k \in DOMAIN DataUsersOf :
          /\ DataUsersOf[k].followers = "3"
          /\ Len(DataUsersOf[k].followerIds) = 2
          /\ DataUsersOf[k].following = " 3 "
    /\ \E k \in DOMAIN DataUsersOf : DataUsersOf[k].followers = "abc"
    /\ ret.stats.total_followers = 3
    /\ ret.stats.total_following = 3
    /\ ret.stats.total_posts = 4

\* The positions of the users that have a parsable age.
WithAge(users) ==
    { k \in DOMAIN users :
        users[k].age \notin {Absent, None} /\ strip(users[k].age) \in IntTexts }

SumOfAges(users) ==
    SumSeq([k \in DOMAIN users |-> ScalarValue(users[k].age)])

\* C16: avg_age is the sum of the parsable ages divided by the number of
\* users that have one, and 0 when no user has one; avg_followers is
\* total_followers / total_users and avg_posts is total_posts / total_users,
\* each 0 when there is no user; no average divides by zero.
C16_AveragesOverTheirOwnCounts ==
    Calculated =>
        LET users == DataUsersOf
            stats == ret.stats
        IN  /\ IF WithAge(users) = {}
               THEN stats.avg_age = Zero
               ELSE QuotEq(stats.avg_age,
                           Quot(SumOfAges(users), Cardinality(WithAge(users))))
            /\ IF stats.total_users = 0
               THEN stats.avg_followers = Zero /\ stats.avg_posts = Zero
               ELSE /\ QuotEq(stats.avg_followers,
                              Quot(stats.total_followers, stats.total_users))
                    /\ QuotEq(stats.avg_posts,
                              Quot(stats.total_posts, stats.total_users))
            /\ stats.avg_age.den # 0
            /\ stats.avg_followers.den # 0
            /\ stats.avg_posts.den # 0

\* Statistics of two users of which one has the age "20" and the other an
\* age that is no integer.
C16_Witness ==
    /\ Calculated
    /\ Len(DataUsersOf) = 2
    /\ Cardinality(WithAge(DataUsersOf)) = 1
    /\ \E k \in DOMAIN DataUsersOf : DataUsersOf[k].age = "abc"
    /\ QuotEq(ret.stats.avg_age, Quot(20, 1))
    /\ QuotEq(ret.stats.avg_followers, Quot(3, 2))

\* The likes child is missing, empty or not an integer.
BadLikes(likes) == likes \in {Absent, None} \/ strip(likes) \notin IntTexts

MessageKinds ==
    {"Missing user ID", "Missing name", "Post missing ID",
     "Follower ID does not exist in network"}

\* The posts without id of the user elements that have an id.
PostsWithoutId(users) ==
    SumSeq([k \in DOMAIN users |->
              IF Truthy(IdOf(users[k]))
              THEN Count(users[k].posts, LAMBDA q : ~Truthy(q.id))
              ELSE 0])

\* C17: a post whose likes child is missing, empty or not an integer is
\* exported with likes = 0 and the export succeeds; check_for_errors has no
\* error and no warning for it: the only warnings about posts are those of
\* the posts without id.
C17_BadLikesExportedAsZero ==
    /\ Exported =>
          LET users == Resolvable(DataUsersOf)
              exported == json_file.users
          IN  \A k \in DOMAIN exported :
                /\ Len(exported[k].posts) = Len(users[k].posts)
                /\ \A j \in DOMAIN exported[k].posts :
                      exported[k].posts[j].likes
                        = (IF BadLikes(users[k].posts[j].likes) THEN 0
                           ELSE int(users[k].posts[j].likes))
    /\ dc_xml_data # NoData =>
          export_to_json_result(dc_xml_data, JsonPath, json_file,
                                TRUE).ret.success
    /\ Checked =>
          /\ \A m \in Range(ret.errors) \cup Range(ret.warnings) :
                m.kind \in MessageKinds
          /\ Count(ret.errors, LAMBDA m : m.kind = "Post missing ID") = 0
          /\ Count(ret.warnings, LAMBDA m : m.kind = "Post missing ID")
               = PostsWithoutId(DataUsersOf)

\* An export of posts whose likes are missing, without text, blank and "20".
C17_Witness ==
    /\ Exported
    /\ \E k \in DOMAIN json_file.users :
          LET posts == Resolvable(DataUsersOf)[k].posts
          IN  /\ Len(posts) = 2
              /\ posts[1].likes = Absent
              /\ posts[2].likes = " "
              /\ json_file.users[k].posts[1].likes = 0
              /\ json_file.users[k].posts[2].likes = 0
    /\ \E k \in DOMAIN json_file.users :
          LET posts == Resolvable(DataUsersOf)[k].posts
          IN  /\ Len(posts) = 2
              /\ posts[1].likes = None
              /\ json_file.users[k].posts[1].likes = 0
              /\ json_file.users[k].posts[2].likes = 20

\* What the operation returns when it is the only one run on controllers
\* newly given the current document; an export may or may not be able to
\* write its file.
RunAlone(op) ==
    CASE op = "parse_user_data" -> { parse_user_data_result(dc_xml_data) }
      [] op = "check_for_errors" -> { check_for_errors_result(dc_xml_data) }
      [] op = "calculate_statistics" ->
            { calculate_statistics_result(dc_xml_data) }
      [] op = "export_to_json" ->
            { export_to_json_result(dc_xml_data, JsonPath, NoFile, w).ret :
                w \in BOOLEAN }
      [] op = "build_graph" ->
            { build_graph_result(gc_xml_data, NoGraph, EmptyDict).ret }

\* C18: whatever operations ran before it, in whatever order, a step of
\* parse_user_data, check_for_errors, calculate_statistics, export_to_json
\* or build_graph leaves the document of both controllers as it is and
\* returns what the operation returns when run alone on that document; a
\* build_graph that succeeds leaves the graph and metrics of a first build.
C18_ConsumersOnlyRead ==
    [][ret'.op \in Operations =>
          /\ dc_xml_data' = dc_xml_data
          /\ gc_xml_data' = gc_xml_data
          /\ ret' \in RunAlone(ret'.op)
          /\ (ret'.op = "build_graph" /\ ret'.success) =>
                LET first == build_graph_result(gc_xml_data, NoGraph,
                                                EmptyDict)
                IN  G' = first.G /\ metrics' = first.metrics]_vars

\* A check_for_errors with warnings, run after a build_graph and an export
\* of the same document.
C18_Witness ==
    /\ Checked
    /\ ret.warnings # <<>>
    /\ G # NoGraph
    /\ json_file = [users |-> JsonUsers(DataUsersOf, Len(DataUsersOf))]
    /\ json_file.users # <<>>

\* The graph and metrics of a build of the document d.
BuildOf(d) == build_graph_result(d, NoGraph, EmptyDict)

\* C19: after a document is passed to set_xml_data, get_graph() and
\* get_metrics() return None and {} until a build_graph succeeds; whenever
\* the document, the graph or the metrics change, a graph or metrics that
\* are there are those of the current document; and the result of every data
\* and graph operation is the result on the current document: nothing of a
\* document loaded before is returned.
C19_LoadReplacesDocumentAndGraph ==
    [][LET built == BuildOf(gc_xml_data')
           op == ret'.op
       IN  /\ op = "set_xml_data" =>
                 /\ G' = NoGraph /\ metrics' = EmptyDict
                 /\ dc_xml_data' = gc_xml_data'
           /\ (G' # G \/ metrics' # metrics) =>
                 \/ op = "set_xml_data"
                 \/ op = "build_graph" /\ ret'.success
           /\ (/\ G' # NoGraph \/ metrics' # EmptyDict
               /\ \/ G' # G \/ metrics' # metrics
                  \/ gc_xml_data' # gc_xml_data) =>
                 /\ built.ret.success
                 /\ G' = built.G
                 /\ metrics' = built.metrics
           /\ op \in Operations =>
                 CASE op = "parse_user_data" ->
                        ret' = parse_user_data_result(dc_xml_data')
                   [] op = "check_for_errors" ->
                        ret' = check_for_errors_result(dc_xml_data')
                   [] op = "calculate_statistics" ->
                        ret' = calculate_statistics_result(dc_xml_data')
                   [] op = "export_to_json" ->
                        \E w \in BOOLEAN :
                           ret' = export_to_json_result(dc_xml_data',
                                     JsonPath, NoFile, w).ret
                   [] op = "build_graph" -> ret' = built.ret]_vars

\* A graph built from the current document while the exported file still
\* holds the users of a document loaded before it.
C19_Witness ==
    /\ Built
    /\ G = BuildOf(gc_xml_data).G
    /\ json_file # NoFile
    /\ json_file.users # <<>>
    /\ json_file.users # JsonUsers(DataUsersOf, Len(DataUsersOf))
    /\ \E k \in DOMAIN json_file.users :
          json_file.users[k].id \notin Range(NodeIds(ret.nodes))

\* The positions of the user elements that lie inside the user element
\* before them.
NestedPositions == IF Len(dc_xml_data) = 2 THEN dc_xml_data[2] ELSE {}

\* The <post> element that is entry j of findall('.//post') of the user
\* element at position k, named by the position of the user element it is a
\* child of and its place among the posts of that element.
PostElement(users, k, j) ==
    LET own == IF k + 1 \in NestedPositions
               THEN Len(users[k].posts) - Len(users[k + 1].posts)
               ELSE Len(users[k].posts)
    IN  IF j <= own THEN <<k, j>> ELSE <<k + 1, j - own>>

\* The <post> elements that lie under a <user> element.
PostElements(users) ==
    UNION { { PostElement(users, k, j) : j \in DOMAIN users[k].posts } :
            k \in DOMAIN users }

\* C21: every post belongs to exactly one user, also when a user element
\* lies inside another: no post element is in the posts lists of two
\* exported users, and the total_posts of the statistics operations is the
\* number of the post elements that lie under a user element.
C21_EveryPostHasOneUser ==
    LET users == DataUsersOf
    IN  /\ Exported =>
              \A k1, k2 \in { k \in DOMAIN users : IdOf(users[k]) # None } :
                 k1 # k2 =>
                    \A j1 \in DOMAIN users[k1].posts :
                       \A j2 \in DOMAIN users[k2].posts :
                          PostElement(users, k1, j1)
                             # PostElement(users, k2, j2)
        /\ (Parsed \/ Calculated) =>
              ret.stats.total_posts = Cardinality(PostElements(users))

\* C22: for every document and every outcome of the file write, each
\* operation returns its tuple: with error None when success is True, with
\* empty result components and a non-empty error description when it is
\* False; a write that fails gives success = False with its cause as the
\* error, after the one attempt.
C22_OperationsReturnResultOrError ==
    /\ ret.op \in Operations =>
          IF ret.success
          THEN ret.error = None
          ELSE EmptyResult(ret) /\ ret.error \notin {None, ""}
    /\ dc_xml_data # NoData =>
          LET failed == export_to_json_result(dc_xml_data, JsonPath,
                                              json_file, FALSE)
          IN  /\ failed.ret.success = FALSE
              /\ failed.ret.message = ""
              /\ failed.ret.error = "Failed to export to JSON"
    /\ (ret.op = "export_to_json" /\ dc_xml_data # NoData) =>
          \/ ret.success /\ json_file # NoFile
          \/ ~ret.success /\ ret.error = "Failed to export to JSON"

\* An export of a loaded document whose write failed, after one that wrote
\* the file.
C22_Witness ==
    /\ ret.op = "export_to_json"
    /\ dc_xml_data # NoData
    /\ ~ret.success
    /\ ret.error = "Failed to export to JSON"
    /\ json_file # NoFile

\* The last user element that carries the id.
LastWithId(users, id) ==
    users[CHOOSE k \in DOMAIN users :
            /\ IdOf(users[k]) = id
            /\ \A j \in (k + 1)..Len(users) : IdOf(users[j]) # id]

\* C23: in the nodes build_graph returns, no display name is null: it is the
\* text of the name child when the user has a name, and "User <id>" when
\* there is no name child or the name child has no text.
C23_NodeNameNeverNull ==
    Built =>
        \A k \in DOMAIN ret.nodes :
            LET node == ret.nodes[k]
                user == LastWithId(GraphUsersOf, node.id)
            IN  /\ node.name # None
                /\ node.name = (IF user.name \in {Absent, None}
                                THEN "User " \o node.id ELSE user.name)

\* C24: the json command, given an input file that parses and an output path
\* that can be written, and the export action of the browse window with a
\* document loaded, run the export to completion: nothing is raised, the
\* export returns success with its summary and the JSON is in the file.
C24_JsonCommandAndBrowseExportComplete ==
    /\ ( /\ ret.op = "cli_json"
          /\ win.files[ret.input].kind = "xml"
          /\ ret.writable )
       => /\ ret.raised = None
          /\ ret.success
          /\ ret.printed = ret.message
          /\ json_file # NoFile
    /\ ( /\ ret.op = "window_export_to_json"
          /\ win.kind = "browse"
          /\ dc_xml_data # NoData
          /\ ret.writable )
       => /\ ret.raised = None
          /\ ret.success
          /\ json_file # NoFile

\* C25: format_xml_file(file_path, dest_path) with a non-empty dest_path
\* other than file_path writes the pretty-printed copy to dest_path and
\* leaves file_path as it was; with dest_path None or empty it overwrites
\* file_path; on success the controller holds the document at file_path and
\* its number of users; when file_path does not parse no file is written
\* and the controller is unchanged.
C25_FormatWritesDestAndReloadsSource ==
    [][ /\ ret'.op = "cli_format" =>
            LET file_path == ret'.file_path
                dest_path == ret'.dest_path
                dest == IF dest_path = "" THEN file_path ELSE dest_path
            IN  /\ ret'.success =>
                     /\ win'.files[dest] = Pretty(win.files[file_path])
                     /\ dest # file_path =>
                            win'.files[file_path] = win.files[file_path]
                     /\ \A p \in WinPaths \ {dest} :
                            win'.files[p] = win.files[p]
                     /\ ret'.editor_data = << win'.files[file_path].doc >>
                     /\ ret'.editor.user_record_count =
                            Len(win'.files[file_path].doc)
                /\ win.files[file_path].kind # "xml" =>
                     /\ ~ret'.success
                     /\ win'.files = win.files
                     /\ ret'.editor = NewXMLController
        /\ (ret'.op = "format_xml" /\ win.current_file_path # "") =>
            LET file_path == win.current_file_path
                xc == win'.xml_controller
            IN  /\ ret'.success =>
                     /\ win'.files =
                          [win.files EXCEPT
                             ![file_path] = Pretty(win.files[file_path])]
                     /\ DataOf(xc.xml_data, win'.heap) =
                          << win'.files[file_path].doc >>
                     /\ xc.user_record_count =
                          Len(win'.files[file_path].doc)
                /\ win.files[file_path].kind # "xml" =>
                     /\ ~ret'.success
                     /\ win'.files = win.files
                     /\ win'.xml_controller = win.xml_controller
                     /\ win'.heap = win.heap
      ]_vars

\* The format command has written a copy of a.xml to b.xml, which held
\* another text, and a.xml is as it was written by hand.
C25_Witness ==
    /\ ret.op = "cli_format"
    /\ ret.success
    /\ ret.file_path = "a.xml"
    /\ ret.dest_path = "b.xml"
    /\ win.files["b.xml"] = Pretty(win.files["a.xml"])
    /\ ~win.files["a.xml"].pretty
    /\ ret.editor_data = << ScenarioA >>
    /\ ret.editor.user_record_count = Len(ScenarioA)

\* The sum of the values of a degree dict over the keys of nodes.
DegreeSum(nodes, degrees) ==
    SumSeq([k \in DOMAIN nodes |-> degrees[nodes[k].id]])

\* C26: after a successful build_graph the in_degrees and the out_degrees
\* each sum to num_edges, avg_in_degree and avg_out_degree both equal
\* num_edges / num_nodes, and both degree dicts have the node ids as keys.
C26_DegreesSumToEdges ==
    Built =>
        LET ids == Range(NodeIds(ret.nodes))
            mean == Quot(metrics.num_edges, metrics.num_nodes)
        IN  /\ DOMAIN metrics.in_degrees = ids
            /\ DOMAIN metrics.out_degrees = ids
            /\ metrics.num_nodes = Cardinality(ids)
            /\ metrics.num_nodes > 0
            /\ DegreeSum(ret.nodes, metrics.in_degrees) = metrics.num_edges
            /\ DegreeSum(ret.nodes, metrics.out_degrees) = metrics.num_edges
            /\ QuotEq(metrics.avg_in_degree, mean)
            /\ QuotEq(metrics.avg_out_degree, mean)
            /\ QuotEq(metrics.avg_in_degree, metrics.avg_out_degree)

\* A graph of two nodes with an edge of a node to itself and an edge
\* between the two, whose degrees differ from node to node.
C26_Witness ==
    /\ Built
    /\ metrics.num_nodes = 2
    /\ metrics.num_edges = 2
    /\ \E v \in DOMAIN metrics.in_degrees :
          /\ <<v, v>> \in G.edges
          /\ metrics.in_degrees[v] # metrics.out_degrees[v]

\* C27: for the document check_for_errors has checked, the keys of the nodes
\* build_graph returns, the ids of the exported users array and the ids the
\* follower targets are validated against are one set, and a user element
\* is a node and an exported user exactly when check_for_errors does not
\* report it as "Missing user ID".
C27_IdResolversAgree ==
    Checked =>
        LET users == DataUsersOf
            built == build_graph_result(dc_xml_data, NoGraph, EmptyDict).ret
            exported == export_to_json_result(dc_xml_data, JsonPath,
                                              NoFile, TRUE).file
            nodeIds == Range(NodeIds(built.nodes))
            exportedIds == { exported.users[k].id : k \in DOMAIN exported.users }
            reported(k) == MissingUserID(k) \in Range(ret.errors)
        IN  /\ nodeIds = exportedIds
            /\ exportedIds = valid_user_ids(users)
            /\ \A k \in DOMAIN users :
                 /\ reported(k) <=> IdOf(users[k]) \notin nodeIds
                 /\ reported(k) <=> IdOf(users[k]) \notin exportedIds

\* C28: an upload_and_parse whose parse_xml_file or parse_xml_string fails
\* leaves the XMLController as it was (xml_tree, xml_data, current_file_path,
\* user_record_count), hands no document to the data and graph controllers,
\* and leaves the document, the graph and the files every later operation
\* answers from.
C28_FailedLoadKeepsDocument ==
    [][ (ret'.op = "upload_and_parse" /\ ~ret'.success) =>
            /\ win'.xml_controller = win.xml_controller
            /\ win'.heap = win.heap
            /\ win'.data_controller = win.data_controller
            /\ win'.graph_controller = win.graph_controller
            /\ win'.current_file_path = win.current_file_path
            /\ win'.user_record_count = win.user_record_count
            /\ win'.files = win.files
            /\ dc_xml_data' = dc_xml_data
            /\ gc_xml_data' = gc_xml_data
            /\ G' = G
            /\ metrics' = metrics
            /\ parse_user_data_result(dc_xml_data')
                  = parse_user_data_result(
                        DataOf(win.data_controller, win.heap))
      ]_vars

\* a.xml was loaded, then b.xml, which is not well-formed, was chosen and
\* its load failed: the controllers still hold the document of a.xml.
C28_Witness ==
    /\ ret.op = "upload_and_parse"
    /\ ~ret.success
    /\ ret.message = "XML parsing failed"
    /\ win.file_path_edit = "b.xml"
    /\ win.xml_controller.current_file_path = "a.xml"
    /\ win.xml_controller.user_record_count = Len(ScenarioA)
    /\ DataOf(win.xml_controller.xml_data, win.heap) = << ScenarioA >>
    /\ dc_xml_data = << ScenarioA >>
    /\ gc_xml_data = << ScenarioA >>

\* C29: in every window, whatever browse_file, upload_and_parse and
\* format_xml actions were taken, the data controller and the graph
\* controller hold the very document object the XMLController returns from
\* get_xml_data().
C29_ControllersShareDocument ==
    /\ win.data_controller = win.xml_controller.xml_data
    /\ win.graph_controller = win.xml_controller.xml_data

\* C30: in the file windows, whenever the data and graph controllers hold a
\* document, current_file_path, the path validate_xml, format_xml and
\* view_code act on, is the path of the file that document was parsed from,
\* also after another file was selected and not loaded.
C30_PathIsThatOfLoadedDocument ==
    (win.kind # "manual" /\ win.data_controller # NoObject) =>
        /\ win.current_file_path = win.parsed_from[win.data_controller]
        /\ win.current_file_path = win.parsed_from[win.graph_controller]
        /\ ret.op = "validate_xml" =>
              ret.file_path = win.parsed_from[win.data_controller]

====
